---- MODULE Spec2Model ----
(***************************************************************************)
(* QuickStudy AI: the incremental reconstruction of an AnalysisResult from *)
(* a streamed JSON text (parseStreamingJson, src/components/App.tsx) and   *)
(* the session state of the App component that drives it.                  *)
(*                                                                         *)
(* Texts are TLA+ strings; a character is a string of length one.  Indices *)
(* are 1-based; an index of 0 stands for JavaScript's -1 ("not found").    *)
(***************************************************************************)
EXTENDS Integers, Sequences, FiniteSets, TLC

(***************************************************************************)
(* Characters and texts                                                    *)
(***************************************************************************)
\* s.charAt(i - 1); "" past either end of the text
Char(s, i) == IF i >= 1 /\ i <= Len(s) THEN SubSeq(s, i, i) ELSE ""

\* s.substring(i - 1, j): the characters i..j of s that exist
Slice(s, i, j) ==
    LET lo == IF i < 1 THEN 1 ELSE i
        hi == IF j > Len(s) THEN Len(s) ELSE j
    IN  IF lo > hi THEN "" ELSE SubSeq(s, lo, hi)

\* s.substring(i - 1)
Substring(s, i) == Slice(s, i, Len(s))

Min(S) == CHOOSE m \in S : \A n \in S : m <= n

\* s.indexOf(pat, from - 1) + 1
IndexOf(s, pat, from) ==
    LET hits == { i \in from..(Len(s) - Len(pat) + 1) :
                      Slice(s, i, i + Len(pat) - 1) = pat }
    IN  IF hits = {} THEN 0 ELSE Min(hits)

(***************************************************************************)
(* JavaScript values as produced by JSON.parse.  Every value is a record   *)
(* [t, v]: t is the type tag, v the payload (a string, a number, a         *)
(* sequence of values, or a function from property names to values).       *)
(***************************************************************************)
Undefined == [t |-> "undefined", v |-> ""]
JNull     == [t |-> "null", v |-> ""]
JBool(b)  == [t |-> "bool", v |-> b]
JNum(n)   == [t |-> "num", v |-> n]
JStr(s)   == [t |-> "str", v |-> s]
JArr(a)   == [t |-> "arr", v |-> a]
JObj(f)   == [t |-> "obj", v |-> f]

\* o[k] for a parsed value o: a missing property, or a property of a
\* number, string or boolean, reads as undefined
Get(o, k) == IF o.t = "obj" /\ k \in DOMAIN o.v THEN o.v[k] ELSE Undefined

\* a === b: primitives by value, objects and arrays by reference (two
\* separately parsed objects are never the same reference)
StrictEq(a, b) ==
    /\ a.t = b.t
    /\ a.t \in {"undefined", "null", "bool", "num", "str"}
    /\ a.v = b.v

(***************************************************************************)
(* JSON.parse.  The grammar of ECMA-404 restricted to the model's          *)
(* alphabet: numbers are unsigned integers (no input holds a sign, a       *)
(* fraction or an exponent) and the escapes are those TLA+ can spell       *)
(* (no input holds \b or \uXXXX).  A SyntaxError is the result Fail.       *)
(***************************************************************************)
Fail     == [ok |-> FALSE, v |-> Undefined, i |-> 0]
Ok(v, i) == [ok |-> TRUE, v |-> v, i |-> i]

Digits == {"0", "1", "2", "3", "4", "5", "6", "7", "8", "9"}
DigitVal(c) == CHOOSE n \in 0..9 : SubSeq("0123456789", n + 1, n + 1) = c

JsonWs == {" ", "\t", "\n", "\r"}
ControlChars == {"\t", "\n", "\r", "\f"}

\* the character an escape sequence \e stands for
Escapes == [e \in {"\"", "\\", "/", "n", "r", "t", "f"} |->
              CASE e = "n" -> "\n"
                [] e = "r" -> "\r"
                [] e = "t" -> "\t"
                [] e = "f" -> "\f"
                [] OTHER -> e]

RECURSIVE SkipWs(_, _)
SkipWs(s, i) == IF Char(s, i) \in JsonWs THEN SkipWs(s, i + 1) ELSE i

\* the body of a string literal from index i on, up to its closing quote
RECURSIVE ParseStringBody(_, _, _)
ParseStringBody(s, i, acc) ==
    LET c == Char(s, i) IN
    IF c = "" THEN Fail
    ELSE IF c = "\"" THEN Ok(JStr(acc), i + 1)
    ELSE IF c = "\\" THEN
        LET e == Char(s, i + 1) IN
        IF e \in DOMAIN Escapes
        THEN ParseStringBody(s, i + 2, acc \o Escapes[e])
        ELSE Fail
    ELSE IF c \in ControlChars THEN Fail
    ELSE ParseStringBody(s, i + 1, acc \o c)

RECURSIVE ParseDigits(_, _, _)
ParseDigits(s, i, n) ==
    IF Char(s, i) \in Digits
    THEN ParseDigits(s, i + 1, 10 * n + DigitVal(Char(s, i)))
    ELSE Ok(JNum(n), i)

ParseNumber(s, i) ==
    IF Char(s, i) = "0" THEN Ok(JNum(0), i + 1) ELSE ParseDigits(s, i, 0)

ParseLiteral(s, i) ==
    IF Slice(s, i, i + 3) = "true" THEN Ok(JBool(TRUE), i + 4)
    ELSE IF Slice(s, i, i + 4) = "false" THEN Ok(JBool(FALSE), i + 5)
    ELSE IF Slice(s, i, i + 3) = "null" THEN Ok(JNull, i + 4)
    ELSE Fail

RECURSIVE ParseValue(_, _), ParseElements(_, _, _), ParseMembers(_, _, _)

\* one JSON value starting exactly at index i
ParseValue(s, i) ==
    LET c == Char(s, i) IN
    IF c = "\"" THEN ParseStringBody(s, i + 1, "")
    ELSE IF c = "[" THEN
        LET j == SkipWs(s, i + 1) IN
        IF Char(s, j) = "]" THEN Ok(JArr(<<>>), j + 1)
        ELSE ParseElements(s, j, <<>>)
    ELSE IF c = "{" THEN
        LET j == SkipWs(s, i + 1) IN
        IF Char(s, j) = "}" THEN Ok(JObj(<<>>), j + 1)
        ELSE ParseMembers(s, j, <<>>)
    ELSE IF c \in Digits THEN ParseNumber(s, i)
    ELSE IF c \in {"t", "f", "n"} THEN ParseLiteral(s, i)
    ELSE Fail

\* the elements of an array from index i on, up to its closing bracket
ParseElements(s, i, acc) ==
    LET r == ParseValue(s, i) IN
    IF ~r.ok THEN Fail
    ELSE LET j == SkipWs(s, r.i)
             c == Char(s, j)
         IN  IF c = "," THEN ParseElements(s, SkipWs(s, j + 1), Append(acc, r.v))
             ELSE IF c = "]" THEN Ok(JArr(Append(acc, r.v)), j + 1)
             ELSE Fail

\* the members of an object from index i on, up to its closing brace; a
\* repeated property name keeps the last value
ParseMembers(s, i, acc) ==
    IF Char(s, i) # "\"" THEN Fail
    ELSE LET k == ParseStringBody(s, i + 1, "") IN
         IF ~k.ok THEN Fail
         ELSE LET j == SkipWs(s, k.i) IN
              IF Char(s, j) # ":" THEN Fail
              ELSE LET r == ParseValue(s, SkipWs(s, j + 1)) IN
                   IF ~r.ok THEN Fail
                   ELSE LET m == SkipWs(s, r.i)
                            c == Char(s, m)
                            next == (k.v.v :> r.v) @@ acc
                        IN  IF c = "," THEN ParseMembers(s, SkipWs(s, m + 1), next)
                            ELSE IF c = "}" THEN Ok(JObj(next), m + 1)
                            ELSE Fail

\* JSON.parse(s): one value, surrounded by optional white space, and
\* nothing else
JSONParse(s) ==
    LET r == ParseValue(s, SkipWs(s, 1)) IN
    IF r.ok /\ SkipWs(s, r.i) = Len(s) + 1 THEN r ELSE Fail

(***************************************************************************)
(* parseStreamingJson                                                      *)
(***************************************************************************)
\* \s of a regular expression, within the model's alphabet
ReSpace == {" ", "\t", "\n", "\r", "\f"}
\* the characters the regular-expression dot does not match
LineTerminators == {"\n", "\r"}

RECURSIVE SkipReSpace(_, _)
SkipReSpace(s, i) == IF Char(s, i) \in ReSpace THEN SkipReSpace(s, i + 1) ELSE i

\* ScanSummaryBody with the end of the text accepted in place of the
\* closing quote
RECURSIVE ScanSummaryBodyOpenEnded(_, _)
ScanSummaryBodyOpenEnded(s, i) ==
    LET c == Char(s, i) IN
    IF c = "" THEN i
    ELSE IF c = "\"" THEN i
    ELSE IF c = "\\" THEN
        IF Char(s, i + 1) = "" \/ Char(s, i + 1) \in LineTerminators THEN 0
        ELSE ScanSummaryBodyOpenEnded(s, i + 2)
    ELSE ScanSummaryBodyOpenEnded(s, i + 1)

\* ScanSummaryBody with the pattern [^"]*" : a backslash escapes nothing
RECURSIVE ScanSummaryBodyNoEscape(_, _)
ScanSummaryBodyNoEscape(s, i) ==
    LET c == Char(s, i) IN
    IF c = "" THEN 0
    ELSE IF c = "\"" THEN i
    ELSE ScanSummaryBodyNoEscape(s, i + 1)

\* (?:\\.|[^"\\])*" from index i on: the index of the closing quote, or 0
\* when the text ends, or an escape cannot be matched, before one is found
RECURSIVE ScanSummaryBody(_, _)
ScanSummaryBody(s, i) ==
    LET c == Char(s, i) IN
    IF c = "" THEN 0
    ELSE IF c = "\"" THEN i
    ELSE IF c = "\\" THEN
        IF Char(s, i + 1) = "" \/ Char(s, i + 1) \in LineTerminators THEN 0
        ELSE ScanSummaryBody(s, i + 2)
    ELSE ScanSummaryBody(s, i + 1)

\* the pattern /"summary"\s*:\s*"((?:\\.|[^"\\])*)"/ anchored at index i
SummaryMatchAt(s, i) ==
    LET key   == "\"summary\""
        colon == SkipReSpace(s, i + Len(key))
        open  == SkipReSpace(s, colon + 1)
        close == ScanSummaryBody(s, open + 1)
    IN  IF /\ Slice(s, i, i + Len(key) - 1) = key
           /\ Char(s, colon) = ":"
           /\ Char(s, open) = "\""
           /\ close # 0
        THEN [found |-> TRUE, group |-> Slice(s, open + 1, close - 1)]
        ELSE [found |-> FALSE, group |-> ""]

\* jsonString.match(...): the leftmost match
SummaryMatch(s) ==
    LET hits == { i \in 1..Len(s) : SummaryMatchAt(s, i).found } IN
    IF hits = {} THEN [found |-> FALSE, group |-> ""]
    ELSE SummaryMatchAt(s, Min(hits))

\* the summary field with a catch that leaves the summary empty
ParseSummaryDropsUndecodable(s) ==
    LET m == SummaryMatch(s) IN
    IF m.found /\ m.group # "" THEN
        LET r == JSONParse("\"" \o m.group \o "\"") IN
        IF r.ok THEN r.v.v ELSE ""
    ELSE ""

\* lines 41-48: the summary field
ParseSummary(s) ==
    LET m == SummaryMatch(s) IN
    IF m.found /\ m.group # "" THEN
        LET r == JSONParse("\"" \o m.group \o "\"") IN
        IF r.ok THEN r.v.v ELSE m.group
    ELSE ""

\* ReplaceTrailingComma without the replacement
ReplaceTrailingCommaNever(s) == s

\* text.replace(/,\]$/, ']')
ReplaceTrailingComma(s) ==
    IF Len(s) >= 2 /\ Slice(s, Len(s) - 1, Len(s)) = ",]"
    THEN Slice(s, 1, Len(s) - 2) \o "]"
    ELSE s

\* list.some(x => x[idKey] === obj[idKey])
HasIdentity(list, obj, idKey) ==
    \E n \in 1..Len(list) : StrictEq(Get(list[n], idKey), Get(obj, idKey))

\* one iteration of the character loop of the partial parse (lines 65-79,
\* 100-113).  st holds the loop's braceCount and currentObjectString, the
\* result list so far, and whether the loop has been left by break;
\* stopAtClose is whether the loop has the statement
\* "if (braceCount === 0 && char === ']') break"
ScanStep(st, char, idKey, stopAtClose) ==
    IF st.done THEN st
    ELSE
    LET count1 == IF char = "{" THEN st.braceCount + 1 ELSE st.braceCount
        cur1   == IF count1 > 0 THEN st.currentObjectString \o char
                                ELSE st.currentObjectString
        count2 == IF char = "}" THEN count1 - 1 ELSE count1
        closed == char = "}" /\ count2 = 0 /\ Len(cur1) > 0
        obj    == JSONParse(cur1)
    IN  [braceCount |-> count2,
         currentObjectString |-> IF closed THEN "" ELSE cur1,
         list |-> IF closed /\ obj.ok /\ ~HasIdentity(st.list, obj.v, idKey)
                  THEN Append(st.list, obj.v) ELSE st.list,
         done |-> stopAtClose /\ count2 = 0 /\ char = "]"]

\* the iterations for the characters lo..hi of text, in order (the range is
\* split in halves, and the first half is finished before the second is
\* entered, to keep the evaluation shallow)
RECURSIVE ScanRange(_, _, _, _, _, _)
ScanRange(st, text, lo, hi, idKey, stopAtClose) ==
    IF lo > hi THEN st
    ELSE IF lo = hi THEN ScanStep(st, Char(text, lo), idKey, stopAtClose)
    ELSE LET mid  == (lo + hi) \div 2
             left == ScanRange(st, text, lo, mid, idKey, stopAtClose)
         IN  IF left.done THEN left
             ELSE ScanRange(left, text, mid + 1, hi, idKey, stopAtClose)

\* the whole loop "for (const char of text)": the list it leaves
ScanObjects(text, idKey, stopAtClose) ==
    ScanRange([braceCount |-> 0, currentObjectString |-> "", list |-> <<>>,
               done |-> FALSE],
              text, 1, Len(text), idKey, stopAtClose).list

\* lines 51-83: the keyConcepts field
ParseKeyConcepts(s) ==
    LET keyConceptsStartIndex == IndexOf(s, "\"keyConcepts\"", 1)
        arrayStartIndex == IndexOf(s, "[", keyConceptsStartIndex)
        potentialArrayContent == Substring(s, arrayStartIndex)
        concepts == JSONParse(ReplaceTrailingComma(potentialArrayContent))
    IN  IF keyConceptsStartIndex = 0 \/ arrayStartIndex = 0 THEN <<>>
        ELSE IF concepts.ok
             THEN IF concepts.v.t = "arr" THEN concepts.v.v ELSE <<>>
             ELSE ScanObjects(Substring(potentialArrayContent, 2), "name", TRUE)

\* the questions field without the complete parse of lines 91-95: always
\* object by object
ParseQuestionsScanOnly(s) ==
    LET questionsStartIndex == IndexOf(s, "\"questions\"", 1)
        arrayStartIndex == IndexOf(s, "[", questionsStartIndex)
        potentialArrayContent == Substring(s, arrayStartIndex)
    IN  IF questionsStartIndex = 0 \/ arrayStartIndex = 0 THEN <<>>
        ELSE ScanObjects(Substring(potentialArrayContent, 2),
                         "questionNumber", FALSE)

\* lines 86-117: the questions field
ParseQuestions(s) ==
    LET questionsStartIndex == IndexOf(s, "\"questions\"", 1)
        arrayStartIndex == IndexOf(s, "[", questionsStartIndex)
        potentialArrayContent == Substring(s, arrayStartIndex)
        questions == JSONParse(ReplaceTrailingComma(potentialArrayContent))
    IN  IF questionsStartIndex = 0 \/ arrayStartIndex = 0 THEN <<>>
        ELSE IF questions.ok
             THEN IF questions.v.t = "arr" THEN questions.v.v ELSE <<>>
             ELSE ScanObjects(Substring(potentialArrayContent, 2),
                              "questionNumber", FALSE)

\* a parser that reports, in a fourth field, whether the text was a complete
\* JSON value
parseStreamingJsonWithError(jsonString) ==
    [summary     |-> ParseSummary(jsonString),
     keyConcepts |-> ParseKeyConcepts(jsonString),
     questions   |-> ParseQuestions(jsonString),
     error       |-> ~JSONParse(jsonString).ok]

\* lines 37-119: the result object of line 38, filled by the three blocks
parseStreamingJson(jsonString) ==
    [summary     |-> ParseSummary(jsonString),
     keyConcepts |-> ParseKeyConcepts(jsonString),
     questions   |-> ParseQuestions(jsonString)]

(***************************************************************************)
(* The texts the transport delivers.  A document is a record: the text it  *)
(* streams and the content its producer serialised into that text.         *)
(***************************************************************************)
MaxElems  == 2      \* elements per array of a document
MaxChunk  == 2      \* characters per chunk
MaxRawLen == 3      \* characters of an unstructured text after its key

\* element texts of a keyConcepts array: two with the same name and
\* different content, and one whose name holds a brace
ConceptA     == "{\"name\":\"a\"}"
ConceptA2    == "{\"name\":\"a\",\"d\":\"x\"}"
ConceptBrace == "{\"name\":\"b{\"}"
ConceptPool  == { ConceptA, ConceptA2, ConceptBrace }

\* element texts of a questions array: two with the same questionNumber,
\* one whose questionNumber holds a brace, and one that is not an object
QuestionOne   == "{\"questionNumber\":\"1\",\"mainTopic\":\"t\"}"
QuestionOne2  == "{\"questionNumber\":\"1\"}"
QuestionBrace == "{\"questionNumber\":\"2}\"}"
QuestionNull  == "null"
QuestionPool  == { QuestionOne, QuestionOne2, QuestionBrace, QuestionNull }

\* a question whose answer holds markup
QuestionMarkup == "{\"questionNumber\":\"3\",\"correctAnswer\":\"<script>\"}"

\* summary values: empty, plain, holding a quote, ending in a backslash
SummaryValues == { "", "s", "a\"b", "c\\" }

RawAlphabet == { "{", "}", "[", "]", "\"", "," }

Lists(pool, n) == UNION { [1..m -> pool] : m \in 0..n }

\* JSON.stringify of a string value, without the surrounding quotes
RECURSIVE JsonEscape(_)
JsonEscape(v) ==
    IF v = "" THEN ""
    ELSE LET c == Char(v, 1) IN
         (IF c \in {"\"", "\\"} THEN "\\" \o c ELSE c) \o JsonEscape(Substring(v, 2))

RECURSIVE Join(_)
Join(elems) ==
    IF Len(elems) = 0 THEN ""
    ELSE IF Len(elems) = 1 THEN elems[1]
    ELSE elems[1] \o "," \o Join(Tail(elems))

RenderArray(elems, comma) ==
    "[" \o Join(elems) \o (IF comma THEN "," ELSE "") \o "]"

SummaryField(v)     == "\"summary\":\"" \o JsonEscape(v) \o "\""
ConceptsField(k, c) == "\"keyConcepts\":" \o RenderArray(k, c)
QuestionsField(q, c) == "\"questions\":" \o RenderArray(q, c)

\* a complete document; order "skq" is summary, keyConcepts, questions and
\* order "sqk" is summary, questions, keyConcepts
FullDoc(order, v, k, q) ==
    [kind |-> "full", order |-> order, summary |-> v, concepts |-> k,
     questions |-> q, comma |-> FALSE,
     text |-> "{" \o SummaryField(v) \o ","
              \o (IF order = "skq"
                  THEN ConceptsField(k, FALSE) \o "," \o QuestionsField(q, FALSE)
                  ELSE QuestionsField(q, FALSE) \o "," \o ConceptsField(k, FALSE))
              \o "}"]

\* a text that ends with the closing bracket of one array field
ArrayDoc(field, elems, comma) ==
    [kind |-> "array", order |-> field, summary |-> "",
     concepts |-> IF field = "k" THEN elems ELSE <<>>,
     questions |-> IF field = "q" THEN elems ELSE <<>>,
     comma |-> comma,
     text |-> IF field = "k" THEN ConceptsField(elems, comma)
                             ELSE QuestionsField(elems, comma)]

\* a key followed by arbitrary characters
RawDoc(key, raw) ==
    [kind |-> "raw", order |-> "", summary |-> "", concepts |-> <<>>,
     questions |-> <<>>, comma |-> FALSE, text |-> key \o raw]

\* string bodies as the service may send them without proper escaping: a raw
\* tab, an escape JSON does not know, a cut \u escape; and a proper escape
RawSummaryBodies == { "a\tb", "\\q", "x\\u12", "a\\nb" }

\* a text that is the summary field with the string body written as it is
SummaryDoc(body) ==
    [kind |-> "summary", order |-> "", summary |-> body, concepts |-> <<>>,
     questions |-> <<>>, comma |-> FALSE,
     text |-> "\"summary\":\"" \o body \o "\""]

RECURSIVE RawTexts(_)
RawTexts(n) ==
    IF n = 0 THEN {""}
    ELSE LET shorter == RawTexts(n - 1) IN
         shorter \cup { t \o c : t \in shorter, c \in RawAlphabet }

ParserDocs ==
    { FullDoc("skq", v, <<ConceptA>>, <<>>) :
          v \in SummaryValues }
    \cup { FullDoc(o, "s", k, <<>>) :
               o \in {"skq", "sqk"}, k \in Lists(ConceptPool, MaxElems) }
    \cup { FullDoc(o, "s", <<>>, q) :
               o \in {"skq", "sqk"}, q \in Lists(QuestionPool, MaxElems) }
    \cup { ArrayDoc("k", k, c) :
               k \in Lists(ConceptPool, MaxElems), c \in BOOLEAN }
    \cup { ArrayDoc("q", q, c) :
               q \in Lists(QuestionPool, MaxElems), c \in BOOLEAN }
    \cup { SummaryDoc(body) : body \in RawSummaryBodies }
    \cup { RawDoc(key, raw) :
               key \in {"\"summary\":", "\"keyConcepts\":", "\"questions\":"},
               raw \in RawTexts(MaxRawLen) }

(***************************************************************************)
(* State of the App component (lines 579-596) and of one run of            *)
(* startAnalysis (lines 639-687) and of handleSendMessage (lines 689-721)  *)
(***************************************************************************)
MaxAnalyses == 2    \* analyses started in one behaviour
MaxChats    == 1    \* chat messages sent in one behaviour
AppChunk    == 16   \* characters per chunk when the whole App is explored

VARIABLES
    doc,              \* the document the transport is delivering
    accumulatedText,  \* startAnalysis: let accumulatedText
    parsed,           \* startAnalysis: the result of the latest parse
    pc,               \* startAnalysis: "idle", "awaitStream" or "streaming"
    user,             \* useState<User | null>(null): TRUE when signed in
    files,            \* useState<File[]>([]): the number of files
    isAnalyzing,      \* useState(false)
    currentAnalysis,  \* useState<AnalysisResult | null>(null)
    analysisId,       \* useState<string | null>(null): 0 is null
    history,          \* useState<HistoryItem[]>([])
    chatSession,      \* useState<Chat | null>(null): the session's context
    messages,         \* useState<ChatMessage[]>([])
    now,              \* Date.now()
    alerts,           \* the number of failure notices shown by alert()
    started,          \* the number of analyses started
    mounted,          \* the component tree is mounted
    active,           \* the number of calls of startAnalysis in flight
    abandoned,        \* New Analysis or logout since the call in flight began
    isChatStreaming,  \* useState(false)
    chatPc,           \* handleSendMessage: "idle", "awaitReply" or "replying"
    reply,            \* the chunks of the reply still to come
    fullResponse,     \* handleSendMessage: let fullResponse
    chats             \* the number of chat messages sent

vars == <<doc, accumulatedText, parsed, pc, user, files, isAnalyzing,
          currentAnalysis, analysisId, history, chatSession, messages, now,
          alerts, started, mounted, active, abandoned, isChatStreaming,
          chatPc, reply, fullResponse, chats>>

appVars == <<user, files, analysisId, history, chatSession, messages, now,
             alerts, started, mounted>>

\* the state of handleSendMessage
chatVars == <<isChatStreaming, chatPc, reply, fullResponse, chats>>

\* the calls of startAnalysis in flight
flightVars == <<active, abandoned>>

\* the value null of a state that holds an AnalysisResult
Null == [summary |-> "", keyConcepts |-> <<>>, questions |-> <<>>,
         isNull |-> TRUE]

\* an AnalysisResult held in such a state
Some(r) == [summary |-> r.summary, keyConcepts |-> r.keyConcepts,
            questions |-> r.questions, isNull |-> FALSE]

\* line 38
EmptyResult == [summary |-> "", keyConcepts |-> <<>>, questions |-> <<>>]

\* line 642
Placeholder ==
    [summary |-> "Analyzing your document... This usually takes 10-20 seconds.",
     keyConcepts |-> <<>>, questions |-> <<>>]

\* line 678
Greeting == [role |-> "model", text |-> "I've analyzed the paper! You can ask me about specific questions, concepts, or for more practice problems."]

\* line 741
Restored == [role |-> "model", text |-> "Chat session restored."]

RECURSIVE NumToString(_)
NumToString(n) ==
    IF n < 10 THEN SubSeq("0123456789", n + 1, n + 1)
    ELSE NumToString(n \div 10) \o SubSeq("0123456789", (n % 10) + 1, (n % 10) + 1)

\* `${x}` for a parsed value x (an array is joined without its brackets;
\* the documents hold no array under mainTopic)
TemplateString(x) ==
    IF x.t = "str" THEN x.v
    ELSE IF x.t = "num" THEN NumToString(x.v)
    ELSE IF x.t = "bool" THEN (IF x.v THEN "true" ELSE "false")
    ELSE IF x.t = "obj" THEN "[object Object]"
    ELSE IF x.t = "arr" THEN ""
    ELSE x.t

\* the title of the history record without the test of line 670
TitleAlwaysNew(finalResult) == "New Analysis"

\* lines 669-670: the title of the history record
Title(finalResult) ==
    IF Len(finalResult.questions) > 0
    THEN TemplateString(Get(finalResult.questions[1], "mainTopic")) \o " Analysis"
    ELSE "New Analysis"

\* line 670: reading a property of null raises a TypeError
TitleThrows(finalResult) ==
    Len(finalResult.questions) > 0 /\ finalResult.questions[1].t = "null"

\* no stream is open
NoDoc == RawDoc("", "")

\* the documents of the App's transport: a complete document, a text with
\* one question, a text whose first question is null, a text whose first
\* concept is null, a text with a question whose answer holds markup, and an
\* empty stream
AppDocs ==
    { FullDoc("skq", "s", <<ConceptA>>, <<QuestionOne>>),
      ArrayDoc("q", <<QuestionOne2>>, FALSE),
      ArrayDoc("q", <<QuestionNull>>, FALSE),
      ArrayDoc("k", <<QuestionNull>>, FALSE),
      ArrayDoc("q", <<QuestionMarkup>>, FALSE),
      RawDoc("", "") }

Init ==
    /\ doc = NoDoc
    /\ accumulatedText = ""
    /\ parsed = EmptyResult
    /\ pc = "idle"
    /\ user = FALSE
    /\ files = 0
    /\ isAnalyzing = FALSE
    /\ currentAnalysis = Null
    /\ analysisId = 0
    /\ history = <<>>
    /\ chatSession = Null
    /\ messages = <<>>
    /\ now = 1
    /\ alerts = 0
    /\ started = 0
    /\ mounted = TRUE
    /\ active = 0
    /\ abandoned = FALSE
    /\ isChatStreaming = FALSE
    /\ chatPc = "idle"
    /\ reply = <<>>
    /\ fullResponse = ""
    /\ chats = 0

\* lines 856-947: rendering the analysis view reads a property of every
\* entry of keyConcepts (line 871) and of questions (line 901), which raises
\* a TypeError for the entry null (the documents hold objects with string
\* fields, and null); the view is rendered for a signed-in user (line 724)
\* and a non-null currentAnalysis (line 770)
RenderThrows(u, analysis) ==
    /\ u
    /\ ~analysis.isNull
    /\ \/ \E n \in 1..Len(analysis.keyConcepts) :
             analysis.keyConcepts[n].t = "null"
       \/ \E n \in 1..Len(analysis.questions) :
             analysis.questions[n].t = "null"

\* lines 613-629: handleLogin (the sign-in always falls back to the demo
\* user); the view of the signed-in user is rendered
Login ==
    /\ mounted /\ ~user
    /\ user' = TRUE
    /\ mounted' = ~RenderThrows(TRUE, currentAnalysis)
    /\ UNCHANGED <<doc, accumulatedText, parsed, pc, files, isAnalyzing,
                   currentAnalysis, analysisId, history, chatSession, messages,
                   now, alerts, started>>
    /\ UNCHANGED chatVars
    /\ UNCHANGED flightVars

\* handleLogout that also clears the history of the session
LogoutClearingHistory ==
    /\ mounted /\ user
    /\ user' = FALSE
    /\ currentAnalysis' = Null
    /\ files' = 0
    /\ messages' = <<>>
    /\ history' = <<>>
    /\ abandoned' = (active > 0)
    /\ UNCHANGED <<doc, accumulatedText, parsed, pc, isAnalyzing, analysisId,
                   chatSession, now, alerts, started, mounted, active>>
    /\ UNCHANGED chatVars

\* lines 631-637: handleLogout
Logout ==
    /\ mounted /\ user
    /\ user' = FALSE
    /\ currentAnalysis' = Null
    /\ files' = 0
    /\ messages' = <<>>
    /\ abandoned' = (active > 0)
    /\ UNCHANGED <<doc, accumulatedText, parsed, pc, isAnalyzing, analysisId,
                   history, chatSession, now, alerts, started, mounted, active>>
    /\ UNCHANGED chatVars

\* lines 788-800, 817: the upload view's file input, drop zone and "Clear all"
SetFiles(n) ==
    /\ mounted /\ user /\ currentAnalysis.isNull
    /\ files # n
    /\ files' = n
    /\ UNCHANGED <<doc, accumulatedText, parsed, pc, user, isAnalyzing,
                   currentAnalysis, analysisId, history, chatSession, messages,
                   now, alerts, started, mounted>>
    /\ UNCHANGED chatVars
    /\ UNCHANGED flightVars

\* startAnalysis behind a button that is not disabled while isAnalyzing
StartAnalysisNotDisabled ==
    /\ mounted /\ user /\ currentAnalysis.isNull
    /\ files # 0
    /\ started < MaxAnalyses
    /\ started' = started + 1
    /\ isAnalyzing' = TRUE
    /\ currentAnalysis' = Some(Placeholder)
    /\ pc' = "awaitStream"
    /\ doc' \in AppDocs
    /\ active' = active + 1
    /\ abandoned' = FALSE
    /\ UNCHANGED <<accumulatedText, parsed, user, files, analysisId, history,
                   chatSession, messages, now, alerts, mounted>>
    /\ UNCHANGED chatVars

\* lines 639-645 up to the first await; the button of lines 822-824 is
\* shown in the upload view and disabled while isAnalyzing.  doc,
\* accumulatedText, parsed and pc are the locals of the call in flight.
StartAnalysis ==
    /\ mounted /\ user /\ currentAnalysis.isNull
    /\ ~isAnalyzing
    /\ files # 0
    /\ started < MaxAnalyses
    /\ started' = started + 1
    /\ isAnalyzing' = TRUE
    /\ currentAnalysis' = Some(Placeholder)
    /\ pc' = "awaitStream"
    /\ doc' \in AppDocs
    /\ active' = active + 1
    /\ abandoned' = FALSE
    /\ UNCHANGED <<accumulatedText, parsed, user, files, analysisId, history,
                   chatSession, messages, now, alerts, mounted>>
    /\ UNCHANGED chatVars

\* lines 645-646: analyzeQuestionPapersStream resolves; the request has
\* taken time
StreamObtained ==
    /\ pc = "awaitStream"
    /\ pc' = "streaming"
    /\ accumulatedText' = ""
    /\ now' = now + 1
    /\ UNCHANGED <<doc, parsed, user, files, isAnalyzing, currentAnalysis,
                   analysisId, history, chatSession, messages, alerts, started,
                   mounted>>
    /\ UNCHANGED chatVars
    /\ UNCHANGED flightVars

\* catch without the call setCurrentAnalysis(null)
StreamFailsKeepingPartial ==
    /\ pc \in {"awaitStream", "streaming"}
    /\ pc' = "idle"
    /\ alerts' = alerts + 1
    /\ IF mounted
       THEN isAnalyzing' = FALSE /\ UNCHANGED currentAnalysis
       ELSE UNCHANGED <<currentAnalysis, isAnalyzing>>
    /\ doc' = NoDoc /\ accumulatedText' = "" /\ parsed' = EmptyResult
    /\ active' = active - 1
    /\ abandoned' = FALSE
    /\ UNCHANGED <<user, files, analysisId, history, chatSession, messages,
                   now, started, mounted>>
    /\ UNCHANGED chatVars

\* lines 680-686: analyzeQuestionPapersStream rejects, or reading a chunk
\* fails; catch and finally (an unmounted tree has no state to set).  The
\* call returns: its stream and its local variables are gone.
StreamFails ==
    /\ pc \in {"awaitStream", "streaming"}
    /\ pc' = "idle"
    /\ alerts' = alerts + 1
    /\ IF mounted
       THEN currentAnalysis' = Null /\ isAnalyzing' = FALSE
       ELSE UNCHANGED <<currentAnalysis, isAnalyzing>>
    /\ doc' = NoDoc /\ accumulatedText' = "" /\ parsed' = EmptyResult
    /\ active' = active - 1
    /\ abandoned' = FALSE
    /\ UNCHANGED <<user, files, analysisId, history, chatSession, messages,
                   now, started, mounted>>
    /\ UNCHANGED chatVars

\* the chunk loop with "accumulatedText = text" for line 652
ReceiveChunkOverwriting(n) ==
    /\ pc = "streaming"
    /\ n >= 1
    /\ Len(accumulatedText) + n <= Len(doc.text)
    /\ accumulatedText' = Slice(doc.text, Len(accumulatedText) + 1,
                                Len(accumulatedText) + n)
    /\ parsed' = parseStreamingJson(accumulatedText')
    /\ IF mounted /\ (parsed'.summary # "" \/ Len(parsed'.keyConcepts) > 0
                                           \/ Len(parsed'.questions) > 0)
       THEN /\ currentAnalysis' = Some(parsed')
            /\ mounted' = ~RenderThrows(user, currentAnalysis')
       ELSE UNCHANGED <<currentAnalysis, mounted>>
    /\ UNCHANGED <<doc, pc, isAnalyzing, user, files, analysisId, history,
                   chatSession, messages, now, alerts, started>>
    /\ UNCHANGED chatVars
    /\ UNCHANGED flightVars

\* the chunk loop without the test of line 656
ReceiveChunkUngated(n) ==
    /\ pc = "streaming"
    /\ n >= 1
    /\ Len(accumulatedText) + n <= Len(doc.text)
    /\ accumulatedText' =
          accumulatedText \o Slice(doc.text, Len(accumulatedText) + 1,
                                   Len(accumulatedText) + n)
    /\ parsed' = parseStreamingJson(accumulatedText')
    /\ IF mounted
       THEN /\ currentAnalysis' = Some(parsed')
            /\ mounted' = ~RenderThrows(user, currentAnalysis')
       ELSE UNCHANGED <<currentAnalysis, mounted>>
    /\ UNCHANGED <<doc, pc, isAnalyzing, user, files, analysisId, history,
                   chatSession, messages, now, alerts, started>>
    /\ UNCHANGED chatVars
    /\ UNCHANGED flightVars

\* lines 648-660: one iteration of "for await (const chunk of stream)" with
\* a chunk of n characters; parsed' is the value of line 654, and the view
\* is rendered with the new currentAnalysis
ReceiveChunk(n) ==
    /\ pc = "streaming"
    /\ n >= 1
    /\ Len(accumulatedText) + n <= Len(doc.text)
    /\ accumulatedText' =
          accumulatedText \o Slice(doc.text, Len(accumulatedText) + 1,
                                   Len(accumulatedText) + n)
    /\ parsed' = parseStreamingJson(accumulatedText')
    /\ IF mounted /\ (parsed'.summary # "" \/ Len(parsed'.keyConcepts) > 0
                                           \/ Len(parsed'.questions) > 0)
       THEN /\ currentAnalysis' = Some(parsed')
            /\ mounted' = ~RenderThrows(user, currentAnalysis')
       ELSE UNCHANGED <<currentAnalysis, mounted>>
    /\ UNCHANGED <<doc, pc, isAnalyzing, user, files, analysisId, history,
                   chatSession, messages, now, alerts, started>>
    /\ UNCHANGED chatVars
    /\ UNCHANGED flightVars

\* Archive without the call setAnalysisId(newId)
ArchiveWithoutId(finalResult) ==
    /\ currentAnalysis' = Some(finalResult)
    /\ analysisId' = analysisId
    /\ history' = <<[id |-> now, title |-> Title(finalResult), date |-> now,
                     analysisResult |-> finalResult]>> \o history
    /\ chatSession' = Some(finalResult)
    /\ messages' = <<Greeting>>
    /\ isAnalyzing' = FALSE

\* the record of lines 668-673 and the state changes of lines 664-678, 685
Archive(finalResult) ==
    /\ currentAnalysis' = Some(finalResult)
    /\ analysisId' = now
    /\ history' = <<[id |-> now, title |-> Title(finalResult), date |-> now,
                     analysisResult |-> finalResult]>> \o history
    /\ chatSession' = Some(finalResult)
    /\ messages' = <<Greeting>>
    /\ isAnalyzing' = FALSE

\* lines 676, 739: startChatSession reads a property of every entry of
\* keyConcepts and of questions (geminiService.ts lines 180, 183), which
\* raises a TypeError for the entry null
ChatContextThrows(analysis) ==
    \/ \E n \in 1..Len(analysis.keyConcepts) : analysis.keyConcepts[n].t = "null"
    \/ \E n \in 1..Len(analysis.questions) : analysis.questions[n].t = "null"

\* lines 664-673, then startChatSession raises at line 676: the record is
\* added, and catch and finally run (lines 680-686)
ArchiveThenFail(finalResult) ==
    /\ currentAnalysis' = Null
    /\ analysisId' = now
    /\ history' = <<[id |-> now, title |-> Title(finalResult), date |-> now,
                     analysisResult |-> finalResult]>> \o history
    /\ alerts' = alerts + 1
    /\ isAnalyzing' = FALSE
    /\ UNCHANGED <<chatSession, messages, mounted>>

\* lines 662-678, 685: the stream closes; the final parse (parsed' is
\* finalResult), the history record and the chat session.  The title of the
\* record is computed by the updater passed to setHistory, when the tree is
\* rendered next: when it raises, startChatSession has raised for the same
\* entry, the notice of line 682 is shown, and the render fails, which
\* unmounts the component tree.  An unmounted tree has no state to set.  The
\* call returns: its stream is gone.
StreamEnd ==
    /\ pc = "streaming"
    /\ accumulatedText = doc.text
    /\ pc' = "idle"
    /\ parsed' = parseStreamingJson(accumulatedText)
    /\ IF ~mounted
       THEN UNCHANGED <<currentAnalysis, analysisId, history, chatSession,
                        messages, isAnalyzing, alerts, mounted>>
       ELSE IF TitleThrows(parsed')
       THEN /\ mounted' = FALSE
            /\ alerts' = alerts + 1
            /\ UNCHANGED <<currentAnalysis, analysisId, history, chatSession,
                           messages, isAnalyzing>>
       ELSE IF ChatContextThrows(parsed')
       THEN ArchiveThenFail(parsed')
       ELSE /\ Archive(parsed')
            /\ UNCHANGED <<alerts, mounted>>
    /\ doc' = NoDoc /\ accumulatedText' = ""
    /\ active' = active - 1
    /\ abandoned' = FALSE
    /\ UNCHANGED <<user, files, now, started>>
    /\ UNCHANGED chatVars

\* lines 736-742: onSelect, for the i-th record of the sidebar; when
\* startChatSession raises at line 739 the two states set before it keep
\* their new values, and the view is rendered with them
SelectHistory(i) ==
    /\ mounted /\ user
    /\ i \in 1..Len(history)
    /\ currentAnalysis' = Some(history[i].analysisResult)
    /\ analysisId' = history[i].id
    /\ IF ChatContextThrows(history[i].analysisResult)
       THEN UNCHANGED <<chatSession, messages>>
       ELSE /\ chatSession' = Some(history[i].analysisResult)
            /\ messages' = <<Restored>>
    /\ mounted' = ~RenderThrows(user, currentAnalysis')
    /\ UNCHANGED <<doc, accumulatedText, parsed, pc, user, files, isAnalyzing,
                   history, now, alerts, started>>
    /\ UNCHANGED chatVars
    /\ UNCHANGED flightVars

\* lines 743-748: onNewChat
NewChat ==
    /\ mounted /\ user
    /\ currentAnalysis' = Null
    /\ analysisId' = 0
    /\ files' = 0
    /\ messages' = <<>>
    /\ abandoned' = (active > 0)
    /\ UNCHANGED <<doc, accumulatedText, parsed, pc, user, isAnalyzing, history,
                   chatSession, now, alerts, started, mounted, active>>
    /\ UNCHANGED chatVars

\* h.filter(x => x.id !== id)
RECURSIVE WithoutId(_, _)
WithoutId(h, id) ==
    IF Len(h) = 0 THEN <<>>
    ELSE IF Head(h).id # id THEN <<Head(h)>> \o WithoutId(Tail(h), id)
    ELSE WithoutId(Tail(h), id)

\* lines 749-756: onDelete, for the i-th record of the sidebar
DeleteHistory(i) ==
    /\ mounted /\ user
    /\ i \in 1..Len(history)
    /\ history' = WithoutId(history, history[i].id)
    /\ IF analysisId = history[i].id
       THEN currentAnalysis' = Null /\ analysisId' = 0
       ELSE UNCHANGED <<currentAnalysis, analysisId>>
    /\ UNCHANGED <<doc, accumulatedText, parsed, pc, user, files, isAnalyzing,
                   chatSession, messages, now, alerts, started, mounted>>
    /\ UNCHANGED chatVars
    /\ UNCHANGED flightVars

\* the texts the user types into the chat input (line 985)
ChatInputs == { "<script>", " " }

\* the replies of the chat service, as sequences of non-empty chunk texts
ChatReplies == { <<"<script>", "a">> }

\* line 717
Sorry == [role |-> "model", text |-> "Sorry, I had trouble replying. Please try again."]

\* String.prototype.trim, within the model's alphabet
RECURSIVE Trim(_)
Trim(s) ==
    IF s = "" THEN ""
    ELSE IF Char(s, 1) \in ReSpace THEN Trim(Slice(s, 2, Len(s)))
    ELSE IF Char(s, Len(s)) \in ReSpace THEN Trim(Slice(s, 1, Len(s) - 1))
    ELSE s

\* handleSendMessage without the early return of line 691
SendMessageUnchecked(text) ==
    /\ mounted /\ user /\ ~currentAnalysis.isNull
    /\ ~isChatStreaming
    /\ chats < MaxChats
    /\ chats' = chats + 1
    /\ messages' = Append(messages, [role |-> "user", text |-> text])
    /\ isChatStreaming' = TRUE
    /\ chatPc' = "awaitReply"
    /\ reply' \in ChatReplies
    /\ fullResponse' = ""
    /\ UNCHANGED <<doc, accumulatedText, parsed, pc, user, files, isAnalyzing,
                   currentAnalysis, analysisId, history, chatSession, now,
                   alerts, started, mounted>>
    /\ UNCHANGED flightVars

\* lines 689-696 up to the first await; the form of lines 981-997 is shown
\* in the analysis view and its button is disabled while isChatStreaming.
\* reply and fullResponse are the locals of the call in flight.
SendMessage(text) ==
    /\ mounted /\ user /\ ~currentAnalysis.isNull
    /\ ~isChatStreaming
    /\ chats < MaxChats
    /\ IF Trim(text) = "" \/ chatSession.isNull
       THEN UNCHANGED vars
       ELSE
           /\ chats' = chats + 1
           /\ messages' = Append(messages, [role |-> "user", text |-> text])
           /\ isChatStreaming' = TRUE
           /\ chatPc' = "awaitReply"
           /\ reply' \in ChatReplies
           /\ fullResponse' = ""
           /\ UNCHANGED <<doc, accumulatedText, parsed, pc, user, files, isAnalyzing,
                          currentAnalysis, analysisId, history, chatSession, now,
                          alerts, started, mounted>>
           /\ UNCHANGED flightVars

\* lines 699-703: sendMessageStream resolves
ChatStreamObtained ==
    /\ chatPc = "awaitReply"
    /\ chatPc' = "replying"
    /\ fullResponse' = ""
    /\ IF mounted
       THEN messages' = Append(messages, [role |-> "model", text |-> ""])
       ELSE UNCHANGED messages
    /\ UNCHANGED <<doc, accumulatedText, parsed, pc, user, files, isAnalyzing,
                   currentAnalysis, analysisId, history, chatSession, now,
                   alerts, started, mounted>>
    /\ UNCHANGED <<isChatStreaming, reply, chats>>
    /\ UNCHANGED flightVars

\* lines 704-714: one iteration of "for await (const chunk of resultStream)";
\* the updater writes the text of the last message, whichever it is, and
\* raises a TypeError when there is none, which fails the render
ChatChunk ==
    /\ chatPc = "replying"
    /\ reply # <<>>
    /\ reply' = Tail(reply)
    /\ fullResponse' = fullResponse \o Head(reply)
    /\ IF ~mounted THEN UNCHANGED <<messages, mounted>>
       ELSE IF Len(messages) = 0
       THEN mounted' = FALSE /\ UNCHANGED messages
       ELSE /\ messages' = [messages EXCEPT ![Len(messages)].text = fullResponse']
            /\ UNCHANGED mounted
    /\ UNCHANGED <<doc, accumulatedText, parsed, pc, user, files, isAnalyzing,
                   currentAnalysis, analysisId, history, chatSession, now,
                   alerts, started>>
    /\ UNCHANGED <<isChatStreaming, chatPc, chats>>
    /\ UNCHANGED flightVars

\* lines 715-720: sendMessageStream rejects, or reading a chunk fails; catch
\* and finally
ChatFails ==
    /\ chatPc \in {"awaitReply", "replying"}
    /\ chatPc' = "idle"
    /\ reply' = <<>>
    /\ fullResponse' = ""
    /\ IF mounted
       THEN messages' = Append(messages, Sorry) /\ isChatStreaming' = FALSE
       ELSE UNCHANGED <<messages, isChatStreaming>>
    /\ UNCHANGED <<doc, accumulatedText, parsed, pc, user, files, isAnalyzing,
                   currentAnalysis, analysisId, history, chatSession, now,
                   alerts, started, mounted, chats>>
    /\ UNCHANGED flightVars

\* lines 714, 718-720: the reply stream closes; finally
ChatEnd ==
    /\ chatPc = "replying"
    /\ reply = <<>>
    /\ chatPc' = "idle"
    /\ fullResponse' = ""
    /\ IF mounted THEN isChatStreaming' = FALSE ELSE UNCHANGED isChatStreaming
    /\ UNCHANGED <<doc, accumulatedText, parsed, pc, user, files, isAnalyzing,
                   currentAnalysis, analysisId, history, chatSession, messages,
                   now, alerts, started, mounted, reply, chats>>
    /\ UNCHANGED flightVars

Next ==
    \/ Login
    \/ Logout
    \/ \E n \in 0..1 : SetFiles(n)
    \/ StartAnalysis
    \/ StreamObtained
    \/ StreamFails
    \/ \E n \in 1..AppChunk :
          /\ n = AppChunk \/ n = Len(doc.text) - Len(accumulatedText)
          /\ ReceiveChunk(n)
    \/ StreamEnd
    \/ \E i \in 1..MaxAnalyses : SelectHistory(i)
    \/ NewChat
    \/ \E i \in 1..MaxAnalyses : DeleteHistory(i)
    \/ \E text \in ChatInputs : SendMessage(text)
    \/ ChatStreamObtained
    \/ ChatChunk
    \/ ChatFails
    \/ ChatEnd

Spec == Init /\ [][Next]_vars

(***************************************************************************)
(* The page (lines 724-1005): the texts that reach the DOM.  A node is a   *)
(* record: markup is TRUE for a string assigned as HTML                    *)
(* (dangerouslySetInnerHTML), FALSE for a React text child.                *)
(***************************************************************************)
\* the markup the sanitizer exists to remove
ScriptTag == "<script>"

\* s without any occurrence of pat
RECURSIVE RemoveAll(_, _)
RemoveAll(s, pat) ==
    LET i == IndexOf(s, pat, 1) IN
    IF i = 0 THEN s
    ELSE Slice(s, 1, i - 1) \o RemoveAll(Substring(s, i + Len(pat)), pat)

\* lines 928, 971: marked.parse, for a text of one line: a paragraph, with
\* the HTML of the text passed through
MarkedParse(text) == IF text = "" THEN "" ELSE "<p>" \o text \o "</p>\n"

\* lines 928, 971: DOMPurify.sanitize, as far as the model's texts go: script
\* tags are removed
Sanitize(html) == RemoveAll(html, ScriptTag)

TextNode(v) == [markup |-> FALSE, value |-> v]

MarkupNode(v) == [markup |-> TRUE, value |-> v]

\* x || '' for a property that is a string or undefined
OrEmpty(x) == IF x.t = "str" THEN x.v ELSE ""

\* the React text children for the properties props of the entry e
TextNodes(e, props) == { TextNode(OrEmpty(Get(e, k))) : k \in props }

\* lines 927-929 with the sanitizer left out
AnswerNodeUnsanitized(q) ==
    MarkupNode(MarkedParse(OrEmpty(Get(q, "correctAnswer"))))

\* lines 927-929: the answer of a question
AnswerNode(q) ==
    MarkupNode(Sanitize(MarkedParse(OrEmpty(Get(q, "correctAnswer")))))

\* lines 970-973 with the sanitizer left out
MessageNodeUnsanitized(msg) ==
    IF msg.role = "model"
    THEN MarkupNode(MarkedParse(msg.text))
    ELSE TextNode(msg.text)

\* lines 970-973: a chat message
MessageNode(msg) ==
    IF msg.role = "model"
    THEN MarkupNode(Sanitize(MarkedParse(msg.text)))
    ELSE TextNode(msg.text)

\* lines 856-999: the nodes of the analysis view that hold text of the
\* model or of the user
Dom ==
    IF ~mounted \/ ~user \/ currentAnalysis.isNull THEN {}
    ELSE {TextNode(currentAnalysis.summary)}
         \cup UNION { TextNodes(currentAnalysis.keyConcepts[n],
                                {"importance", "name", "description"}) :
                         n \in 1..Len(currentAnalysis.keyConcepts) }
         \cup UNION { TextNodes(currentAnalysis.questions[n],
                                {"questionNumber", "mainTopic", "difficulty",
                                 "marks", "questionText"}) :
                         n \in 1..Len(currentAnalysis.questions) }
         \cup { AnswerNode(currentAnalysis.questions[n]) :
                   n \in 1..Len(currentAnalysis.questions) }
         \cup { MessageNode(messages[n]) : n \in 1..Len(messages) }

\* the parser driven by the chunk loop alone, over every document: the
\* state after startAnalysis has obtained its stream
ParserInit ==
    /\ doc \in ParserDocs
    /\ accumulatedText = ""
    /\ parsed = EmptyResult
    /\ pc = "streaming"
    /\ user = TRUE
    /\ files = 1
    /\ isAnalyzing = TRUE
    /\ currentAnalysis = Some(Placeholder)
    /\ analysisId = 0
    /\ history = <<>>
    /\ chatSession = Null
    /\ messages = <<>>
    /\ now = 2
    /\ alerts = 0
    /\ started = 1
    /\ mounted = TRUE
    /\ active = 1
    /\ abandoned = FALSE
    /\ isChatStreaming = FALSE
    /\ chatPc = "idle"
    /\ reply = <<>>
    /\ fullResponse = ""
    /\ chats = 0

ParserNext == \E n \in 1..MaxChunk : ReceiveChunk(n)

ParserSpec == ParserInit /\ [][ParserNext]_vars

(***************************************************************************)
(* Properties of parseStreamingJson, checked under ParserSpec              *)
(***************************************************************************)
IsSeq(x) == DOMAIN x = 1..Len(x)

Entries(list) == { list[n] : n \in 1..Len(list) }

\* the entries of list that are objects
Objects(list) == { e \in Entries(list) : e.t = "obj" }

\* the whole text of the document has been received
Complete == accumulatedText = doc.text

TypedDistinct(d) ==
    /\ \A m \in 1..Len(d.concepts) :
          /\ JSONParse(d.concepts[m]).v.t = "obj"
          /\ \A n \in 1..Len(d.concepts) : m # n =>
                ~StrictEq(Get(JSONParse(d.concepts[m]).v, "name"),
                          Get(JSONParse(d.concepts[n]).v, "name"))
    /\ \A m \in 1..Len(d.questions) :
          /\ JSONParse(d.questions[m]).v.t = "obj"
          /\ \A n \in 1..Len(d.questions) : m # n =>
                ~StrictEq(Get(JSONParse(d.questions[m]).v, "questionNumber"),
                          Get(JSONParse(d.questions[n]).v, "questionNumber"))

\* C2: on a complete, valid document the parser's three fields equal those
\* of JSON.parse of the document (stated for the documents in schema order
\* whose array elements are objects with distinct identity keys).
C2_CompleteEqualsJsonParse ==
    (doc.kind = "full" /\ doc.order = "skq" /\ TypedDistinct(doc) /\ Complete) =>
        LET d == JSONParse(doc.text).v IN
        /\ parsed.summary = Get(d, "summary").v
        /\ parsed.keyConcepts = Get(d, "keyConcepts").v
        /\ parsed.questions = Get(d, "questions").v

\* C3: when more text of the same stream arrives, every entry of
\* keyConcepts and of questions extracted before is still an entry after.
C3_EntriesNeverLost ==
    [][ /\ Objects(parsed.keyConcepts) \subseteq Entries(parsed'.keyConcepts)
        /\ Objects(parsed.questions) \subseteq Entries(parsed'.questions) ]_vars

\* the objects among the element texts elems, parsed
ElemValue(elems, m) == JSONParse(elems[m]).v

HasId(o, idKey) == o.t = "obj" /\ idKey \in DOMAIN o.v

\* the element texts m of elems that are objects with the identity of o
SameId(elems, o, idKey) ==
    { m \in 1..Len(elems) :
        /\ HasId(ElemValue(elems, m), idKey)
        /\ StrictEq(Get(ElemValue(elems, m), idKey), Get(o, idKey)) }

\* list holds exactly one entry for every identity that two objects of
\* elems share, and it is the first of them
FirstOccurrenceWins(list, elems, idKey) ==
    \A m \in 1..Len(elems) :
        LET o    == ElemValue(elems, m)
            twins == SameId(elems, o, idKey)
            held  == { n \in 1..Len(list) :
                         StrictEq(Get(list[n], idKey), Get(o, idKey)) }
        IN  (HasId(o, idKey) /\ Cardinality(twins) > 1) =>
                /\ Cardinality(held) = 1
                /\ \A n \in held : list[n] = ElemValue(elems, Min(twins))

\* C4: when an array of the text holds two objects with the same identity
\* key, the result holds exactly one entry with that key, the first one.
C4_FirstOccurrenceWins ==
    (doc.kind \in {"full", "array"} /\ Complete) =>
        /\ FirstOccurrenceWins(parsed.keyConcepts, doc.concepts, "name")
        /\ FirstOccurrenceWins(parsed.questions, doc.questions, "questionNumber")

\* the index in the document's text of the opening bracket of a field
ArrayStart(key) == IndexOf(doc.text, "[", IndexOf(doc.text, key, 1))

RECURSIVE SumLen(_, _)
SumLen(elems, m) == IF m = 0 THEN 0 ELSE Len(elems[m]) + SumLen(elems, m - 1)

\* the elements of the array of a field (element texts elems) whose last
\* character has been received
Received(key, elems) ==
    { m \in 1..Len(elems) :
        ArrayStart(key) + SumLen(elems, m) + (m - 1) <= Len(accumulatedText) }

\* C5: every entry of keyConcepts and of questions is the parse of an
\* element of that field's array that has been received completely; no
\* other fragment of the text is surfaced as an entry.
C5_OnlyReceivedElements ==
    doc.kind \in {"full", "array"} =>
        /\ \A e \in Entries(parsed.keyConcepts) :
              \E m \in Received("\"keyConcepts\"", doc.concepts) :
                  e = ElemValue(doc.concepts, m)
        /\ \A e \in Entries(parsed.questions) :
              \E m \in Received("\"questions\"", doc.questions) :
                  e = ElemValue(doc.questions, m)

\* the number of backslashes directly before index i of text
BackslashRun(text, i) ==
    Cardinality({ k \in 1..(i - 1) :
                    \A m \in 1..k : Char(text, i - m) = "\\" })

\* index i of text is a quote that opens or closes a string literal
IsStringQuote(text, i) ==
    Char(text, i) = "\"" /\ BackslashRun(text, i) % 2 = 0

\* index i of text lies inside a string literal
InString(text, i) ==
    Cardinality({ j \in 1..(i - 1) : IsStringQuote(text, j) }) % 2 = 1

Paren(c) == IF c = "{" THEN "(" ELSE IF c = "}" THEN ")" ELSE c

\* the characters lo..hi of text, with every brace that lies inside a
\* string literal replaced by the parenthesis of the same direction
RECURSIVE WithoutStringBraces(_, _, _)
WithoutStringBraces(text, lo, hi) ==
    IF lo > hi THEN ""
    ELSE IF lo = hi
         THEN IF InString(text, lo) THEN Paren(Char(text, lo)) ELSE Char(text, lo)
    ELSE LET mid == (lo + hi) \div 2 IN
         WithoutStringBraces(text, lo, mid) \o WithoutStringBraces(text, mid + 1, hi)

\* a string value with its braces replaced in the same way
RECURSIVE ParenString(_)
ParenString(v) ==
    IF v = "" THEN "" ELSE Paren(Char(v, 1)) \o ParenString(Substring(v, 2))

RECURSIVE ParenValue(_)
ParenValue(x) ==
    IF x.t = "str" THEN JStr(ParenString(x.v))
    ELSE IF x.t = "arr" THEN JArr([n \in 1..Len(x.v) |-> ParenValue(x.v[n])])
    ELSE IF x.t = "obj" THEN JObj([k \in DOMAIN x.v |-> ParenValue(x.v[k])])
    ELSE x

ParenList(list) == [n \in 1..Len(list) |-> ParenValue(list[n])]

\* C6: braces inside string values do not count toward object depth: the
\* entries extracted from a text are those extracted from the same text with
\* the braces inside its string values replaced by other characters.
C6_StringBracesIgnored ==
    LET other == parseStreamingJson(
                     WithoutStringBraces(accumulatedText, 1, Len(accumulatedText)))
    IN  /\ ParenList(parsed.keyConcepts) = other.keyConcepts
        /\ ParenList(parsed.questions) = other.questions

\* C7: an array text with a dangling comma directly before its closing
\* bracket yields the entries of the same array text without that comma.
C7_TrailingCommaIgnored ==
    (doc.kind = "array" /\ doc.comma /\ Complete) =>
        /\ parsed.keyConcepts =
              parseStreamingJson(ArrayDoc(doc.order, doc.concepts, FALSE).text).keyConcepts
        /\ parsed.questions =
              parseStreamingJson(ArrayDoc(doc.order, doc.questions, FALSE).text).questions

\* an array of two objects with the same name, ending in ",]", is parsed
\* as a whole: both objects are entries
C7_Witness ==
    /\ doc.kind = "array" /\ doc.comma /\ Complete
    /\ doc.concepts = <<ConceptA, ConceptA2>>
    /\ Len(parsed.keyConcepts) = 2

\* the indices in a full document's text of the quotes around the summary
SummaryOpen  == Len("{\"summary\":\"")
SummaryClose == SummaryOpen + Len(JsonEscape(doc.summary)) + 1

\* C8: a text cut inside the summary string value, after its opening quote
\* and before its closing quote, yields the summary "".
C8_CutSummaryIsEmpty ==
    (/\ doc.kind = "full"
     /\ Len(accumulatedText) >= SummaryOpen
     /\ Len(accumulatedText) < SummaryClose) => parsed.summary = ""

\* the text is cut directly after an escaped quote of the summary value
C8_Witness ==
    /\ doc.kind = "full"
    /\ accumulatedText = "{\"summary\":\"a\\\""
    /\ parsed.summary = ""

\* C9: once the closing quote of the summary value has been received, the
\* summary is the decoded value up to that quote: escaped characters inside
\* the value do not end it early.
C9_SummaryDecoded ==
    (doc.kind = "full" /\ Len(accumulatedText) >= SummaryClose) =>
        parsed.summary = doc.summary

\* a summary holding an escaped quote has been received and decoded
C9_Witness ==
    /\ doc.kind = "full"
    /\ doc.summary = "a\"b"
    /\ Len(accumulatedText) = SummaryClose
    /\ parsed.summary = "a\"b"

(***************************************************************************)
(* Properties of the App, checked under Spec                               *)
(***************************************************************************)
\* a step in which the stream closes and startAnalysis runs to its end
\* without a failure
EndsWithoutFailure ==
    pc = "streaming" /\ pc' = "idle" /\ alerts' = alerts /\ mounted'

\* C10: when an analysis stream ends without a failure, currentAnalysis is
\* the parse of the whole accumulated text, exactly one record is added to
\* history, holding that same value, and analysisId is that record's id.
C10_FinalResultArchived ==
    [][ EndsWithoutFailure =>
          LET final == parseStreamingJson(accumulatedText) IN
          /\ currentAnalysis' = Some(final)
          /\ Len(history') = Len(history) + 1
          /\ Tail(history') = history
          /\ Head(history').analysisResult = final
          /\ analysisId' = Head(history').id
          /\ \A n \in 1..Len(history) : history[n].id # analysisId' ]_vars

\* a second analysis has ended: two records, the newest one current
C10_Witness ==
    /\ pc = "idle" /\ mounted /\ ~isAnalyzing
    /\ Len(history) = 2
    /\ analysisId = history[1].id
    /\ currentAnalysis = Some(history[1].analysisResult)
    /\ Len(currentAnalysis.questions) = 1

\* C11: a record of history keeps its id, title, date and analysisResult and
\* stays in history, in the same order, through every operation except
\* delete: a step that is not a delete leaves history as it was or puts one
\* new record in front of it; a delete of the record with id d leaves
\* exactly the records whose id is not d, unchanged and in the same order.
C11_RecordsKeptUntilDeleted ==
    [][ /\ (~ \E i \in 1..Len(history) : DeleteHistory(i)) =>
              \E k \in 0..1 :
                 /\ Len(history') = Len(history) + k
                 /\ SubSeq(history', k + 1, Len(history')) = history
        /\ \A i \in 1..Len(history) :
              DeleteHistory(i) =>
                 history' = SelectSeq(history,
                                      LAMBDA x : x.id # history[i].id) ]_vars

\* two analyses have been archived and the newer record has been deleted:
\* the older one is still there
C11_Witness ==
    /\ mounted /\ pc = "idle" /\ alerts = 0
    /\ started = 2 /\ now = 3
    /\ Len(history) = 1
    /\ history[1].id = 2

\* C12: when obtaining the stream or reading a chunk fails, the state after
\* the failure has been handled has a null currentAnalysis, the history the
\* step started with (chunks add no record, so none was added for this
\* analysis), isAnalyzing false, and one more failure notice.
C12_FailureResets ==
    [][ (StreamFails /\ mounted) =>
           /\ currentAnalysis'.isNull
           /\ history' = history
           /\ ~isAnalyzing'
           /\ alerts' = alerts + 1 ]_vars

\* the first analysis has failed after its stream was obtained, with the
\* user still signed in
C12_Witness ==
    /\ mounted /\ user /\ pc = "idle"
    /\ started = 1 /\ now = 2 /\ alerts = 1
    /\ currentAnalysis.isNull /\ ~isAnalyzing /\ history = <<>>

\* C13: no content of the chunks makes an analysis fail: a chunk never
\* brings the page down, and when the stream closes without a transport
\* error the analysis ends with a non-null currentAnalysis and one more
\* history record, without a failure notice.
C13_ContentNeverFails ==
    [][ /\ (mounted /\ pc = "streaming" /\ pc' = "streaming"
                    /\ accumulatedText' # accumulatedText) => mounted'
        /\ (mounted /\ StreamEnd) =>
              /\ mounted'
              /\ ~currentAnalysis'.isNull
              /\ Len(history') = Len(history) + 1
              /\ alerts' = alerts ]_vars

\* C14: in every reachable state at most one call of startAnalysis is in
\* flight (between its start and its completion or failure).
C14_OneStreamLoop == active <= 1

\* while an analysis is in flight the user has gone back to the upload view
\* and chosen files: only the disabled button holds the second start back
C14_Witness ==
    /\ active = 1 /\ pc = "streaming"
    /\ mounted /\ user /\ currentAnalysis.isNull /\ files # 0
    /\ started < MaxAnalyses
    /\ isAnalyzing

\* C15: in every reachable state of the mounted page the analysis stream
\* and a chat reply stream are not both in flight: isAnalyzing and
\* isChatStreaming are never true together.
C15_StreamsExclusive == mounted => ~(isAnalyzing /\ isChatStreaming)

\* a step of the analysis in flight: a chunk is received, or the stream
\* closes and the call runs to its end
StreamStep ==
    /\ pc = "streaming"
    /\ \/ pc' = "streaming" /\ accumulatedText' # accumulatedText
       \/ pc' = "idle" /\ alerts' = alerts

\* C16: once the user has abandoned the analysis in flight (New Analysis or
\* logout), its later chunks and its completion do not parse again and leave
\* currentAnalysis, analysisId, history, the chat session and the chat
\* messages as they are.
C16_AbandonedStreamInert ==
    [][ (mounted /\ abandoned /\ StreamStep) =>
           UNCHANGED <<parsed, currentAnalysis, analysisId, history,
                       chatSession, messages>> ]_vars

\* a step in which the mounted page receives a chunk of the analysis stream
ChunkStep ==
    /\ mounted
    /\ pc = "streaming" /\ pc' = "streaming"
    /\ accumulatedText' # accumulatedText

C18_MarkupSanitized ==
    /\ \A node \in Dom : node.markup => IndexOf(node.value, ScriptTag, 1) = 0
    /\ \A n \in 1..Len(messages) :
          (messages[n].role = "user" /\ Dom # {}) =>
             TextNode(messages[n].text) \in Dom

\* the page shows a reply of the model and a message of the user that both
\* hold a script tag
C18_Witness ==
    /\ Dom # {}
    /\ \E n \in 1..Len(messages) :
          /\ messages[n].role = "model"
          /\ IndexOf(messages[n].text, ScriptTag, 1) # 0
    /\ \E n \in 1..Len(messages) :
          /\ messages[n].role = "user"
          /\ IndexOf(messages[n].text, ScriptTag, 1) # 0

(***************************************************************************)
(* Properties of the parser, checked under ParserSpec                      *)
(***************************************************************************)
\* the values of the elements of an array of the document
ElemValues(elems) == { ElemValue(elems, m) : m \in 1..Len(elems) }

\* C20: the scan of a field's array stops at the array's closing bracket,
\* for keyConcepts and for questions alike: no element of the other field's
\* array, which lies after that bracket, is ever an entry of the field.
C20_StopsAtClosingBracket ==
    doc.kind = "full" =>
        /\ Entries(parsed.keyConcepts) \cap
              (ElemValues(doc.questions) \ ElemValues(doc.concepts)) = {}
        /\ Entries(parsed.questions) \cap
              (ElemValues(doc.concepts) \ ElemValues(doc.questions)) = {}

\* the values of the element texts elems, in order
ElemList(elems) == [n \in 1..Len(elems) |-> ElemValue(elems, n)]

\* C21: when the text from the field's first '[' to the end of the input,
\* with a final ",]" read as "]", is a JSON array, the field holds that
\* array verbatim: the same elements in the same order, duplicates and
\* values that are not objects included.
C21_WholeArrayVerbatim ==
    (doc.kind = "array" /\ Complete) =>
        /\ parsed.keyConcepts = ElemList(doc.concepts)
        /\ parsed.questions = ElemList(doc.questions)

\* an array of a question and null has been received whole: both are
\* entries, in that order
C21_Witness ==
    /\ doc.kind = "array" /\ ~doc.comma /\ Complete
    /\ doc.questions = <<QuestionOne, QuestionNull>>
    /\ Len(parsed.questions) = 2
    /\ parsed.questions[1].t = "obj" /\ parsed.questions[2].t = "null"

\* the element text e opens a candidate buffer, from its first character to
\* its first "}", that is not valid JSON
BadBuffer(e) ==
    LET close == IndexOf(e, "}", 1) IN
    /\ Char(e, 1) = "{"
    /\ close # 0
    /\ IndexOf(Slice(e, 2, close), "{", 1) = 0
    /\ ~JSONParse(Slice(e, 1, close)).ok

\* every object among the received elements of elems that comes after a
\* bad buffer has an entry in list with its identity
AddedAfterBadBuffer(list, key, elems, idKey) ==
    \A m \in Received(key, elems) :
        (/\ HasId(ElemValue(elems, m), idKey)
         /\ \E k \in 1..(m - 1) : BadBuffer(elems[k])) =>
            \E n \in 1..Len(list) :
                StrictEq(Get(list[n], idKey), Get(ElemValue(elems, m), idKey))

\* C22: in the object-by-object scan a candidate buffer that fails to parse
\* is discarded and the scan goes on: every complete element object received
\* after it has an entry with its identity key.
C22_ScanGoesOnAfterBadBuffer ==
    (doc.kind = "array" /\ ~Complete) =>
        /\ AddedAfterBadBuffer(parsed.keyConcepts, "\"keyConcepts\"",
                               doc.concepts, "name")
        /\ AddedAfterBadBuffer(parsed.questions, "\"questions\"",
                               doc.questions, "questionNumber")

\* C23: when the captured summary text is not a valid JSON string body (a
\* raw control character, an unknown or cut escape), the summary returned
\* is the captured text itself, unchanged.
C23_UndecodableSummaryKept ==
    (/\ doc.kind = "summary" /\ Complete
     /\ ~JSONParse("\"" \o doc.summary \o "\"").ok) =>
        parsed.summary = doc.summary

\* a summary with an escape JSON does not know has been received: the
\* result holds it with its backslash
C23_Witness ==
    /\ doc.kind = "summary" /\ Complete
    /\ doc.summary = "\\q"
    /\ parsed.summary = "\\q"

(***************************************************************************)
(* Further properties of the App, checked under Spec                       *)
(***************************************************************************)
\* C24: within one analysis stream the accumulated text only grows at its
\* end, by the chunks of the stream in their order, and is parsed once per
\* chunk: a step of the stream either leaves the text and the latest parse
\* alone or extends the text by the next characters of the stream and
\* parses the extended text; the final parse is of the whole stream.
C24_AppendOnlyAccumulator ==
    [][ /\ (pc = "streaming" /\ pc' = "streaming") =>
              \/ accumulatedText' = accumulatedText /\ parsed' = parsed
              \/ /\ Len(accumulatedText') > Len(accumulatedText)
                 /\ accumulatedText' = Slice(doc.text, 1, Len(accumulatedText'))
                 /\ accumulatedText =
                       Slice(accumulatedText', 1, Len(accumulatedText))
                 /\ parsed' = parseStreamingJson(accumulatedText')
        /\ StreamEnd =>
              /\ accumulatedText = doc.text
              /\ parsed' = parseStreamingJson(doc.text) ]_vars

\* a document of several chunks has been received to its end: the final
\* parse is that of the whole document
C24_Witness ==
    /\ pc = "idle" /\ mounted /\ started = 1 /\ Len(history) = 1
    /\ parsed.summary = "s"
    /\ Len(parsed.keyConcepts) = 1 /\ Len(parsed.questions) = 1
    /\ history[1].analysisResult = parsed

\* C25: an analysis that was started leaves the analyzing state when its
\* stream closes or fails: after that step the page is up with isAnalyzing
\* false, so that a later analysis can be started.
C25_AnalyzingEnds ==
    [][ (StreamEnd \/ StreamFails) => (mounted' /\ ~isAnalyzing') ]_vars

\* C26: in every state, an analysisId that is set is the id of a record of
\* history and currentAnalysis is that record's analysisResult; analysisId
\* is not set when currentAnalysis is null.
C26_IdNamesCurrentRecord ==
    /\ analysisId # 0 =>
          \E i \in 1..Len(history) :
              /\ history[i].id = analysisId
              /\ currentAnalysis = Some(history[i].analysisResult)
    /\ currentAnalysis.isNull => analysisId = 0

\* C27: a chunk of a chat reply is written to the model message that was
\* appended for that reply and to nothing else: when the chunk arrives the
\* list of messages is not empty, its last message is that reply's message
\* (role "model", the text received so far), and only its text changes.
C27_ChunkUpdatesOwnMessage ==
    [][ (ChatChunk /\ mounted) =>
            /\ Len(messages) > 0
            /\ messages[Len(messages)] = [role |-> "model", text |-> fullResponse]
            /\ messages' = [messages EXCEPT ![Len(messages)].text = fullResponse']
      ]_vars

\* C28: whenever a chat message can be sent (the result view is shown and a
\* chat session exists), the chat session was made from the result on view.
C28_SessionOfShownResult ==
    (mounted /\ user /\ ~currentAnalysis.isNull /\ ~chatSession.isNull) =>
        chatSession = currentAnalysis

\* C29: a chat reply is started only by a send with a chat session and an
\* input that is not blank, and that step appends the user's message; when
\* the reply fails the messages so far (the user's message and any partial
\* reply) are kept, one message of role "model" with the apology is
\* appended and isChatStreaming is false; when the reply ends the messages
\* are kept and isChatStreaming is false.
C29_ChatSendAndFailure ==
    [][ /\ (chatPc = "idle" /\ chatPc' # "idle") =>
              /\ ~chatSession.isNull
              /\ isChatStreaming'
              /\ \E text \in ChatInputs :
                    /\ Trim(text) # ""
                    /\ messages' = Append(messages,
                                          [role |-> "user", text |-> text])
        /\ (ChatFails /\ mounted) =>
              /\ messages' = Append(messages, Sorry)
              /\ Sorry.role = "model"
              /\ ~isChatStreaming'
        /\ (ChatEnd /\ mounted) =>
              /\ messages' = messages
              /\ ~isChatStreaming' ]_vars

\* a reply has failed after its first chunk: greeting, the user's message,
\* the partial reply and the apology
C29_Witness ==
    /\ mounted /\ chatPc = "idle" /\ ~isChatStreaming
    /\ Len(messages) = 4
    /\ messages[2] = [role |-> "user", text |-> "<script>"]
    /\ messages[3] = [role |-> "model", text |-> "<script>"]
    /\ messages[4] = Sorry

\* C30: history is ordered newest first: a step that adds a record puts it
\* in front of the records there were, which keep their order; its title
\* is the mainTopic of the first question of its result followed by
\* " Analysis" when the result has a question, and "New Analysis" when it
\* has none.
C30_NewestFirstWithTitle ==
    [][ Len(history') > Len(history) =>
          LET record == Head(history')
              questions == record.analysisResult.questions
          IN  /\ Tail(history') = history
              /\ record.title =
                    IF Len(questions) > 0
                    THEN TemplateString(Get(questions[1], "mainTopic"))
                             \o " Analysis"
                    ELSE "New Analysis" ]_vars

\* an analysis without questions, then one whose first question has the
\* topic "t": the later record stands first
C30_Witness ==
    /\ mounted /\ pc = "idle"
    /\ Len(history) = 2
    /\ history[1].title = "t Analysis"
    /\ history[2].title = "New Analysis"
    /\ history[2].analysisResult.questions = <<>>
    /\ history[1].id > history[2].id

====
